---- MODULE Spec2Model ----
(***************************************************************************)
(* Reed-Solomon decoding over GF(2^m) as implemented by                    *)
(* core/src/ReedSolomonDecoder.cpp: syndrome computation, the extended     *)
(* Euclidean algorithm, Chien's search, Forney's formula and the in-place  *)
(* correction of the received codeword.                                    *)
(*                                                                         *)
(* GenericGF and GenericGFPoly are used by the decoder but their sources   *)
(* are not part of the reviewed files; they are modelled from sections     *)
(* 4.1 and 4.2 of the specification.  A polynomial is the sequence of its  *)
(* coefficients, highest degree first, without leading zeros; the zero     *)
(* polynomial is <<0>>.                                                    *)
(***************************************************************************)
EXTENDS Integers, Sequences, FiniteSets, TLC

(***************************************************************************)
(* Bounds of the model.                                                    *)
(***************************************************************************)
\* longest received codeword of the single-call specification
MaxLen == 4
\* codeword length of the repeated-call specification
ReuseLen == 2
\* codeword length of the two-thread specification
ConcLen == 2

(***************************************************************************)
(* GenericGF: the field GF(size) with its exp/log tables.                  *)
(***************************************************************************)
RECURSIVE Xor(_, _)
\* bitwise XOR of two naturals (GenericGF::addOrSubtract)
Xor(a, b) ==
    IF a = 0 THEN b
    ELSE IF b = 0 THEN a
    ELSE ((a + b) % 2) + 2 * Xor(a \div 2, b \div 2)

\* the field configurations that are constructed: (size, primitive
\* polynomial, generator base)
FieldConfigs ==
    { [size |-> 4, primitive |-> 7,  generatorBase |-> 0],
      [size |-> 4, primitive |-> 7,  generatorBase |-> 1],
      [size |-> 8, primitive |-> 11, generatorBase |-> 0],
      [size |-> 8, primitive |-> 11, generatorBase |-> 1] }

\* the fields of the repeated-call and of the two-thread specification
SmallFieldConfigs == { c \in FieldConfigs : c.size = 4 }

RECURSIVE GenExp(_, _, _)
\* exp[i]: start from 1, multiply by 2, reduce by the primitive polynomial
\* whenever the result overflows size
GenExp(size, primitive, i) ==
    IF i = 0 THEN 1
    ELSE LET x == 2 * GenExp(size, primitive, i - 1)
         IN  IF x >= size THEN Xor(x, primitive) % size ELSE x

\* the tables of one field
BuildField(c) ==
    LET e == [i \in 0..(c.size - 2) |-> GenExp(c.size, c.primitive, i)]
    IN  [size          |-> c.size,
         generatorBase |-> c.generatorBase,
         expTable      |-> e,
         logTable      |-> [a \in 1..(c.size - 1) |->
                               CHOOSE i \in 0..(c.size - 2) : e[i] = a]]

\* every constructed field, built once
GenericGF == [c \in FieldConfigs |-> BuildField(c)]

\* XOR of two symbols, tabulated
XorTable == [a \in 0..15, b \in 0..15 |-> Xor(a, b)]

addOrSubtract(a, b) == XorTable[a, b]

exp(F, i) == F.expTable[i % (F.size - 1)]

log(F, a) == F.logTable[a]

multiply(F, a, b) ==
    IF a = 0 \/ b = 0 THEN 0
    ELSE F.expTable[(F.logTable[a] + F.logTable[b]) % (F.size - 1)]

\* requires a # 0
inverse(F, a) == F.expTable[(F.size - 1 - F.logTable[a]) % (F.size - 1)]

(***************************************************************************)
(* GenericGFPoly.                                                          *)
(***************************************************************************)
RECURSIVE Normalize(_)
\* strip leading zeros, keeping at least one coefficient
Normalize(c) ==
    IF Len(c) > 1 /\ c[1] = 0 THEN Normalize(Tail(c)) ELSE c

\* GenericGFPoly(field, coefficients)
Poly(c) == Normalize(c)

Zero == <<0>>

One == <<1>>

\* coefficient * x^degree
Monomial(degree, coefficient) ==
    IF coefficient = 0 THEN Zero
    ELSE [i \in 1..(degree + 1) |-> IF i = 1 THEN coefficient ELSE 0]

Degree(p) == Len(p) - 1

IsZero(p) == p[1] = 0

Coefficient(p, d) == IF d > Degree(p) THEN 0 ELSE p[Len(p) - d]

RECURSIVE Horner(_, _, _, _, _)
Horner(F, p, x, i, acc) ==
    IF i > Len(p) THEN acc
    ELSE Horner(F, p, x, i + 1, addOrSubtract(multiply(F, acc, x), p[i]))

\* Horner's method
EvaluateAt(F, p, x) == Horner(F, p, x, 1, 0)

\* termwise XOR after aligning by degree
PolyAdd(a, b) ==
    LET n == IF Len(a) > Len(b) THEN Len(a) ELSE Len(b)
        ca(i) == IF i > n - Len(a) THEN a[i - (n - Len(a))] ELSE 0
        cb(i) == IF i > n - Len(b) THEN b[i - (n - Len(b))] ELSE 0
    IN  Normalize([i \in 1..n |-> addOrSubtract(ca(i), cb(i))])

\* termwise multiplication by a constant
PolyScale(F, p, s) ==
    IF s = 0 THEN Zero
    ELSE [i \in 1..Len(p) |-> multiply(F, p[i], s)]

\* p * coefficient * x^degree
MultiplyByMonomial(F, p, degree, coefficient) ==
    IF coefficient = 0 \/ IsZero(p) THEN Zero
    ELSE [i \in 1..(Len(p) + degree) |->
             IF i <= Len(p) THEN multiply(F, p[i], coefficient) ELSE 0]

RECURSIVE Convolve(_, _, _, _, _)
\* adds a[i] * b * x^(deg a - i + 1) for i = i..Len(a) to acc
Convolve(F, a, b, i, acc) ==
    IF i > Len(a) THEN acc
    ELSE Convolve(F, a, b, i + 1,
                  PolyAdd(acc, MultiplyByMonomial(F, b, Len(a) - i, a[i])))

\* full convolution
PolyMultiply(F, a, b) ==
    IF IsZero(a) \/ IsZero(b) THEN Zero
    ELSE Convolve(F, a, b, 1, Zero)

RECURSIVE DivideLoop(_, _, _, _)
\* long division: cancel the leading term of the remainder while its degree
\* is at least the divisor's and it is not zero
DivideLoop(F, quotient, remainder, divisor) ==
    IF Degree(remainder) >= Degree(divisor) /\ ~IsZero(remainder)
    THEN LET degreeDifference == Degree(remainder) - Degree(divisor)
             scale == multiply(F, remainder[1], inverse(F, divisor[1]))
         IN  DivideLoop(F,
                 PolyAdd(quotient, Monomial(degreeDifference, scale)),
                 PolyAdd(remainder,
                         MultiplyByMonomial(F, divisor, degreeDifference, scale)),
                 divisor)
    ELSE [quotient |-> quotient, remainder |-> remainder]

\* requires the divisor not to be the zero polynomial
Divide(F, dividend, divisor) == DivideLoop(F, Zero, dividend, divisor)

(***************************************************************************)
(* The steps of ReedSolomonDecoder.cpp as operators on values.             *)
(***************************************************************************)
\* syndromeCoefficients[twoS - 1 - i] = poly.evaluateAt(exp(i + generatorBase))
Syndromes(F, rec, R) ==
    [j \in 1..R |-> EvaluateAt(F, Poly(rec), exp(F, (R - j) + F.generatorBase))]

\* mutant: noError starts false and is never set
NoSyndromeErrorUnset(synd) == FALSE

\* the flag noError after the syndrome loop
NoSyndromeError(synd) == \A j \in 1..Len(synd) : synd[j] = 0

\* the scratch polynomials of a thread before its first decode
FreshScratch == [sigma |-> Zero, omega |-> Zero, q |-> Zero, rLast |-> Zero]

\* mutant: field.setZero(tLast) is left out, omega keeps its old value
EuclidInitKeepsOmega(rCoefs, R, scratch) ==
    LET r0     == Poly(rCoefs)
        rLast0 == Monomial(R, 1)
        swapRs == Degree(r0) >= Degree(rLast0)
    IN  [r     |-> IF swapRs THEN rLast0 ELSE r0,
         rLast |-> IF swapRs THEN r0 ELSE rLast0,
         omega |-> scratch.omega,
         sigma |-> One,
         q     |-> scratch.q,
         outcome |-> "continue"]

\* the set-up of RunEuclideanAlgorithm; t is sigma and tLast is omega
EuclidInit(rCoefs, R, scratch) ==
    LET r0     == Poly(rCoefs)
        rLast0 == Monomial(R, 1)
        swapRs == Degree(r0) >= Degree(rLast0)
    IN  [r     |-> IF swapRs THEN rLast0 ELSE r0,
         rLast |-> IF swapRs THEN r0 ELSE rLast0,
         omega |-> Zero,
         sigma |-> One,
         q     |-> scratch.q,
         outcome |-> "continue"]

\* mutant: the loop runs until the remainder is zero
EuclidContinueUntilZero(r0, R) == ~IsZero(r0)

\* mutant: the loop runs one degree too far
EuclidContinueOffByOne(r0, R) == Degree(r0) >= R \div 2 - 1

\* the loop condition: run until r's degree is less than R/2
EuclidContinue(r0, R) == Degree(r0) >= R \div 2

\* mutant: swap(rLast, r) is left out
EuclidIterationNoSwap(F, e) ==
    LET tLast1 == e.sigma
        t1     == e.omega
        rLast1 == e.rLast
        r1     == e.r
    IN  IF IsZero(rLast1)
        THEN [r |-> r1, rLast |-> rLast1, omega |-> tLast1, sigma |-> t1,
              q |-> e.q, outcome |-> "ReedSolomonAlgoFailed"]
        ELSE LET d  == Divide(F, r1, rLast1)
                 t2 == PolyAdd(PolyMultiply(F, d.quotient, tLast1), t1)
             IN  [r |-> d.remainder, rLast |-> rLast1, omega |-> tLast1,
                  sigma |-> t2, q |-> t1,
                  outcome |-> IF Degree(d.remainder) >= Degree(rLast1)
                              THEN "fault" ELSE "continue"]

\* one iteration of the Euclidean loop
EuclidIteration(F, e) ==
    LET tLast1 == e.sigma
        t1     == e.omega
        rLast1 == e.r
        r1     == e.rLast
    IN  IF IsZero(rLast1)
        THEN [r |-> r1, rLast |-> rLast1, omega |-> tLast1, sigma |-> t1,
              q |-> e.q, outcome |-> "ReedSolomonAlgoFailed"]
        ELSE LET d  == Divide(F, r1, rLast1)
                 t2 == PolyAdd(PolyMultiply(F, d.quotient, tLast1), t1)
             IN  [r |-> d.remainder, rLast |-> rLast1, omega |-> tLast1,
                  sigma |-> t2, q |-> t1,
                  outcome |-> IF Degree(d.remainder) >= Degree(rLast1)
                              THEN "fault" ELSE "continue"]

\* after the loop: normalise sigma and omega by sigmaTilde(0)
EuclidFinish(F, e) ==
    LET sigmaTildeAtZero == Coefficient(e.sigma, 0)
    IN  IF sigmaTildeAtZero = 0
        THEN [e EXCEPT !.outcome = "ReedSolomonSigmaTildeZero"]
        ELSE LET inv == inverse(F, sigmaTildeAtZero)
             IN  [r |-> Zero, rLast |-> e.rLast,
                  omega |-> PolyScale(F, e.r, inv),
                  sigma |-> PolyScale(F, e.sigma, inv),
                  q |-> e.q, outcome |-> "NoError"]

RECURSIVE EuclidLoop(_, _, _)
EuclidLoop(F, e, R) ==
    IF EuclidContinue(e.r, R)
    THEN LET n == EuclidIteration(F, e)
         IN  IF n.outcome = "continue" THEN EuclidLoop(F, n, R) ELSE n
    ELSE EuclidFinish(F, e)

RunEuclideanAlgorithm(F, rCoefs, R, scratch) ==
    EuclidLoop(F, EuclidInit(rCoefs, R, scratch), R)

\* mutant: the root itself is recorded, not its inverse
RootLocationRaw(F, i) == i

\* the value the Chien search records for the root i
RootLocation(F, i) == inverse(F, i)

RECURSIVE ChienSearch(_, _, _, _, _)
\* for (i = 1; i < field.size() && e < numErrors; i++)
ChienSearch(F, errorLocator, i, e, out) ==
    IF i < F.size /\ e < Degree(errorLocator)
    THEN IF EvaluateAt(F, errorLocator, i) = 0
         THEN ChienSearch(F, errorLocator, i + 1, e + 1,
                          [out EXCEPT ![e + 1] = RootLocation(F, i)])
         ELSE ChienSearch(F, errorLocator, i + 1, e, out)
    ELSE [e |-> e, locations |-> out, evaluations |-> i - 1]

FindErrorLocations(F, errorLocator) ==
    LET numErrors == Degree(errorLocator)
        resized   == [j \in 1..numErrors |-> 0]
        shortcut  == IF numErrors = 1
                     THEN [resized EXCEPT ![1] = Coefficient(errorLocator, 1)]
                     ELSE resized
        found     == ChienSearch(F, errorLocator, 1, 0, shortcut)
    IN  [status      |-> IF found.e # numErrors
                         THEN "ReedSolomonDegreeMismatch" ELSE "NoError",
         locations   |-> found.locations,
         evaluations |-> found.evaluations]

RECURSIVE Denominator(_, _, _, _, _)
\* the product over j # i of 1 + errorLocations[j] * xiInverse
Denominator(F, locs, i, j, acc) ==
    IF j > Len(locs) THEN acc
    ELSE IF j = i THEN Denominator(F, locs, i, j + 1, acc)
    ELSE LET term      == multiply(F, locs[j], inverse(F, locs[i]))
             termPlus1 == IF term % 2 = 0 THEN term + 1 ELSE term - 1
         IN  Denominator(F, locs, i, j + 1, multiply(F, acc, termPlus1))

\* mutant: the generatorBase != 0 branch is left out
FindErrorMagnitudesNoBase(F, errorEvaluator, locs) ==
    [i \in 1..Len(locs) |->
        multiply(F, EvaluateAt(F, errorEvaluator, inverse(F, locs[i])),
                 inverse(F, Denominator(F, locs, i, 1, 1)))]

\* Forney's formula
FindErrorMagnitudes(F, errorEvaluator, locs) ==
    [i \in 1..Len(locs) |->
        LET xiInverse == inverse(F, locs[i])
            m == multiply(F, EvaluateAt(F, errorEvaluator, xiInverse),
                          inverse(F, Denominator(F, locs, i, 1, 1)))
        IN  IF F.generatorBase # 0 THEN multiply(F, m, xiInverse) ELSE m]

\* position = receivedCount - 1 - log(errorLocations[i]), counted from 0
Position(F, rec, location) == Len(rec) - 1 - log(F, location)

RECURSIVE ApplyCorrections(_, _, _, _, _)
\* the correction loop of decode from its i-th iteration on
ApplyCorrections(F, rec, locs, mags, i) ==
    IF i > Len(locs) THEN [status |-> "NoError", received |-> rec]
    ELSE LET position == Position(F, rec, locs[i])
         IN  IF position < 0
             THEN [status |-> "ReedSolomonBadLocation", received |-> rec]
             ELSE ApplyCorrections(F,
                      [rec EXCEPT ![position + 1] =
                           addOrSubtract(rec[position + 1], mags[i])],
                      locs, mags, i + 1)

\* ReedSolomonDecoder::decode run alone with fresh scratch polynomials:
\* its status and the codeword it leaves (status "fault" for the exception)
decode(F, rec, R) ==
    LET synd == Syndromes(F, rec, R)
    IN  IF NoSyndromeError(synd) THEN [status |-> "NoError", received |-> rec]
        ELSE LET e == RunEuclideanAlgorithm(F, synd, R, FreshScratch)
             IN  IF e.outcome # "NoError"
                 THEN [status |-> e.outcome, received |-> rec]
                 ELSE LET loc == FindErrorLocations(F, e.sigma)
                      IN  IF loc.status # "NoError"
                          THEN [status |-> loc.status, received |-> rec]
                          ELSE ApplyCorrections(F, rec, loc.locations,
                                   FindErrorMagnitudes(F, e.omega, loc.locations),
                                   1)

(***************************************************************************)
(* The state.  Every variable but field is a function of the thread.       *)
(***************************************************************************)
VARIABLES
    field,                  \* the configuration of the shared GenericGF
    pc,                     \* where the thread's decode call stands
    received,               \* the codeword buffer of the call
    twoS,                   \* the number of syndromes of the call
    status,                 \* the DecodeStatus returned, "none" before
    syndromeCoefficients,   \* decode's local vector
    r,                      \* RunEuclideanAlgorithm's local polynomial
    sigma, omega,           \* ZX_THREAD_LOCAL in decode, by storage slot
    q, rLast,               \* ZX_THREAD_LOCAL in RunEuclideanAlgorithm
    errorLocations,         \* decode's local vector
    errorMagnitudes,        \* decode's local vector
    orig,                   \* history: the codeword as passed to the call
    sent,                   \* history: the codeword that was corrupted, or <<>>
    phases,                 \* history: the steps the call has run
    written,                \* history: the positions the call has XORed
    reused,                 \* history: the call began on used scratch
    concurrent              \* history: the call ran while another one did

vars == <<field, pc, received, twoS, status, syndromeCoefficients, r, sigma,
          omega, q, rLast, errorLocations, errorMagnitudes, orig, sent,
          phases, written, reused, concurrent>>

Threads == {1, 2}

\* mutant: ZX_THREAD_LOCAL is static, one storage for every thread
SlotShared(t) == 1

\* the storage a thread's ZX_THREAD_LOCAL polynomials live in
Slot(t) == t

F == GenericGF[field]

locals == <<syndromeCoefficients, r, errorLocations, errorMagnitudes>>

scratch == <<sigma, omega, q, rLast>>

\* thread t takes a step: does another thread's call stand between its
\* first and its last step?
Observe(t) ==
    concurrent' = [concurrent EXCEPT ![t] =
        @ \/ \E u \in Threads \ {t} : pc[u] \notin {"idle", "decode", "done", "fault"}]

\* decode returns st
Return(t, st) ==
    /\ pc' = [pc EXCEPT ![t] = "done"]
    /\ status' = [status EXCEPT ![t] = st]

\* decode, lines 136-148: the syndromes and the fast path
ComputeSyndromes(t) ==
    /\ Observe(t)
    /\ pc[t] = "decode"
    /\ LET synd == Syndromes(F, received[t], twoS[t])
       IN  /\ syndromeCoefficients' = [syndromeCoefficients EXCEPT ![t] = synd]
           /\ IF NoSyndromeError(synd)
              THEN Return(t, "NoError")
              ELSE /\ pc' = [pc EXCEPT ![t] = "euclid"]
                   /\ UNCHANGED status
    /\ UNCHANGED <<field, received, twoS, r, scratch, errorLocations,
                   errorMagnitudes, orig, sent, phases, written, reused>>

\* the scratch polynomials thread t sees
ScratchOf(t) ==
    [sigma |-> sigma[Slot(t)], omega |-> omega[Slot(t)],
     q |-> q[Slot(t)], rLast |-> rLast[Slot(t)]]

\* the Euclidean state thread t sees
EuclidOf(t) ==
    [r |-> r[t], rLast |-> rLast[Slot(t)], omega |-> omega[Slot(t)],
     sigma |-> sigma[Slot(t)], q |-> q[Slot(t)], outcome |-> "continue"]

\* writes the Euclidean state e back
StoreEuclid(t, e) ==
    /\ r' = [r EXCEPT ![t] = e.r]
    /\ rLast' = [rLast EXCEPT ![Slot(t)] = e.rLast]
    /\ omega' = [omega EXCEPT ![Slot(t)] = e.omega]
    /\ sigma' = [sigma EXCEPT ![Slot(t)] = e.sigma]
    /\ q' = [q EXCEPT ![Slot(t)] = e.q]

\* decode line 152 and RunEuclideanAlgorithm lines 30-42
EuclidStart(t) ==
    /\ Observe(t)
    /\ pc[t] = "euclid"
    /\ StoreEuclid(t, EuclidInit(syndromeCoefficients[t], twoS[t], ScratchOf(t)))
    /\ pc' = [pc EXCEPT ![t] = "loop"]
    /\ phases' = [phases EXCEPT ![t] = @ \cup {"euclid"}]
    /\ UNCHANGED <<field, received, twoS, status, syndromeCoefficients,
                   errorLocations, errorMagnitudes, orig, sent, written, reused>>

\* RunEuclideanAlgorithm lines 45-65: one iteration of the loop
EuclidStep(t) ==
    /\ Observe(t)
    /\ pc[t] = "loop"
    /\ EuclidContinue(r[t], twoS[t])
    /\ LET e == EuclidIteration(F, EuclidOf(t))
       IN  /\ StoreEuclid(t, e)
           /\ IF e.outcome = "continue"
              THEN UNCHANGED <<pc, status>>
              ELSE IF e.outcome = "fault"
                   THEN /\ pc' = [pc EXCEPT ![t] = "fault"]
                        /\ UNCHANGED status
                   ELSE Return(t, e.outcome)
    /\ UNCHANGED <<field, received, twoS, syndromeCoefficients, errorLocations,
                   errorMagnitudes, orig, sent, phases, written, reused>>

\* RunEuclideanAlgorithm lines 67-78 and decode lines 153-155
EuclidEnd(t) ==
    /\ Observe(t)
    /\ pc[t] = "loop"
    /\ ~EuclidContinue(r[t], twoS[t])
    /\ LET e == EuclidFinish(F, EuclidOf(t))
       IN  /\ StoreEuclid(t, e)
           /\ IF e.outcome = "NoError"
              THEN /\ pc' = [pc EXCEPT ![t] = "locations"]
                   /\ UNCHANGED status
              ELSE Return(t, e.outcome)
    /\ UNCHANGED <<field, received, twoS, syndromeCoefficients, errorLocations,
                   errorMagnitudes, orig, sent, phases, written, reused>>

\* decode lines 156-160: Chien's search
Locate(t) ==
    /\ Observe(t)
    /\ pc[t] = "locations"
    /\ LET loc == FindErrorLocations(F, sigma[Slot(t)])
       IN  /\ errorLocations' = [errorLocations EXCEPT ![t] = loc.locations]
           /\ IF loc.status = "NoError"
              THEN /\ pc' = [pc EXCEPT ![t] = "magnitudes"]
                   /\ UNCHANGED status
              ELSE Return(t, loc.status)
    /\ phases' = [phases EXCEPT ![t] = @ \cup {"chien"}]
    /\ UNCHANGED <<field, received, twoS, syndromeCoefficients, r, scratch,
                   errorMagnitudes, orig, sent, written, reused>>

\* decode line 161: Forney's formula
Magnitudes(t) ==
    /\ Observe(t)
    /\ pc[t] = "magnitudes"
    /\ errorMagnitudes' = [errorMagnitudes EXCEPT ![t] =
           FindErrorMagnitudes(F, omega[Slot(t)], errorLocations[t])]
    /\ pc' = [pc EXCEPT ![t] = "correct"]
    /\ phases' = [phases EXCEPT ![t] = @ \cup {"forney"}]
    /\ UNCHANGED <<field, received, twoS, status, syndromeCoefficients, r,
                   scratch, errorLocations, orig, sent, written, reused>>

\* decode lines 164-170: one iteration of the correction loop
Correct(t) ==
    /\ Observe(t)
    /\ pc[t] = "correct"
    /\ Len(written[t]) < Len(errorLocations[t])
    /\ LET i        == Len(written[t]) + 1
           position == Position(F, received[t], errorLocations[t][i])
       IN  IF position < 0
           THEN /\ Return(t, "ReedSolomonBadLocation")
                /\ UNCHANGED <<received, written>>
           ELSE /\ received' = [received EXCEPT ![t][position + 1] =
                        addOrSubtract(@, errorMagnitudes[t][i])]
                /\ written' = [written EXCEPT ![t] = Append(@, position)]
                /\ UNCHANGED <<pc, status>>
    /\ UNCHANGED <<field, twoS, locals, scratch, orig, sent, phases, reused>>

\* decode line 171
Finish(t) ==
    /\ Observe(t)
    /\ pc[t] = "correct"
    /\ Len(written[t]) = Len(errorLocations[t])
    /\ Return(t, "NoError")
    /\ UNCHANGED <<field, received, twoS, locals, scratch, orig, sent,
                   phases, written, reused>>

Step(t) ==
    \/ ComputeSyndromes(t)
    \/ EuclidStart(t)
    \/ EuclidStep(t)
    \/ EuclidEnd(t)
    \/ Locate(t)
    \/ Magnitudes(t)
    \/ Correct(t)
    \/ Finish(t)

(***************************************************************************)
(* The inputs.                                                             *)
(***************************************************************************)
\* the codeword buffers of length n over the field of c
Words(c, n) == [1..n -> 0..(c.size - 1)]

\* the even numbers of syndromes that fit a codeword of length n
SyndromeCounts(n) == { k \in 0..n : k % 2 = 0 }

\* w evaluates to zero at exp(i + generatorBase) for every i in [0, k)
IsCodeword(c, w, k) ==
    \A i \in 0..(k - 1) :
        EvaluateAt(GenericGF[c], Poly(w),
                   exp(GenericGF[c], i + c.generatorBase)) = 0

\* the codewords: the buffers whose k syndromes are all zero
Codewords(c, n, k) == { w \in Words(c, n) : IsCodeword(c, w, k) }

\* the positions at which two buffers differ
Diff(a, b) == { i \in 1..Len(a) : a[i] # b[i] }

\* the corruptions of w at 1..e positions, each by a nonzero delta
Corruptions(c, w, e) ==
    UNION { { [i \in 1..Len(w) |-> IF i \in P THEN d[i] ELSE w[i]] :
                d \in { x \in [P -> 0..(c.size - 1)] :
                            \A i \in P : x[i] # w[i] } } :
            P \in { S \in SUBSET (1..Len(w)) :
                        Cardinality(S) >= 1 /\ Cardinality(S) <= e } }

\* every buffer of length n with every number of syndromes; sent is the
\* buffer itself when it is a codeword
PlainCalls(c, n) ==
    UNION { { [received |-> w, twoS |-> k,
               sent |-> IF IsCodeword(c, w, k) THEN w ELSE <<>>] :
              w \in Words(c, n) } :
            k \in SyndromeCounts(n) }

\* every codeword of length n corrupted at 1..k/2 positions
CorruptedCalls(c, n) ==
    UNION { UNION { { [received |-> w, twoS |-> k, sent |-> cw] :
                        w \in Corruptions(c, cw, k \div 2) } :
                    cw \in Codewords(c, n, k) } :
            k \in SyndromeCounts(n) }

\* the buffer lengths tried with a field: every length up to MaxLen for
\* GF(4), and the four-symbol buffers of GF(8), the shortest that hold four
\* syndromes and leave positions of the full-length code outside the buffer
Lengths(c) == IF c.size = 4 THEN 1..MaxLen ELSE {c.size \div 2}

Calls(c) ==
    UNION { PlainCalls(c, n) \cup CorruptedCalls(c, n) : n \in Lengths(c) }

Idle == <<>>

\* the threads in running are about to run their call; the others do not run
InitWith(c, call, running) ==
    /\ field = c
    /\ pc = [t \in Threads |-> IF t \in running THEN "decode" ELSE "idle"]
    /\ received = [t \in Threads |-> IF t \in running THEN call[t].received ELSE Idle]
    /\ orig = received
    /\ twoS = [t \in Threads |-> IF t \in running THEN call[t].twoS ELSE 0]
    /\ sent = [t \in Threads |-> IF t \in running THEN call[t].sent ELSE Idle]
    /\ status = [t \in Threads |-> "none"]
    /\ syndromeCoefficients = [t \in Threads |-> <<>>]
    /\ r = [t \in Threads |-> Zero]
    /\ sigma = [t \in Threads |-> FreshScratch.sigma]
    /\ omega = [t \in Threads |-> FreshScratch.omega]
    /\ q = [t \in Threads |-> FreshScratch.q]
    /\ rLast = [t \in Threads |-> FreshScratch.rLast]
    /\ errorLocations = [t \in Threads |-> <<>>]
    /\ errorMagnitudes = [t \in Threads |-> <<>>]
    /\ phases = [t \in Threads |-> {}]
    /\ written = [t \in Threads |-> <<>>]
    /\ reused = [t \in Threads |-> FALSE]
    /\ concurrent = [t \in Threads |-> FALSE]

(***************************************************************************)
(* Spec: one decode call on one thread.                                    *)
(***************************************************************************)
Init ==
    \E c \in FieldConfigs : \E call \in Calls(c) :
        InitWith(c, [t \in Threads |-> call], {1})

Next == \E t \in Threads : Step(t)

Spec == Init /\ [][Next]_vars

(***************************************************************************)
(* SpecReuse: one thread calls decode again and again; the thread-local    *)
(* polynomials keep what the call before left in them.                     *)
(***************************************************************************)
\* the next call of decode on thread t
Call(t) ==
    /\ pc[t] = "done"
    /\ \E call \in PlainCalls(field, ReuseLen) :
          /\ received' = [received EXCEPT ![t] = call.received]
          /\ orig' = [orig EXCEPT ![t] = call.received]
          /\ twoS' = [twoS EXCEPT ![t] = call.twoS]
          /\ sent' = [sent EXCEPT ![t] = call.sent]
    /\ pc' = [pc EXCEPT ![t] = "decode"]
    /\ status' = [status EXCEPT ![t] = "none"]
    /\ syndromeCoefficients' = [syndromeCoefficients EXCEPT ![t] = <<>>]
    /\ r' = [r EXCEPT ![t] = Zero]
    /\ errorLocations' = [errorLocations EXCEPT ![t] = <<>>]
    /\ errorMagnitudes' = [errorMagnitudes EXCEPT ![t] = <<>>]
    /\ phases' = [phases EXCEPT ![t] = {}]
    /\ written' = [written EXCEPT ![t] = <<>>]
    /\ reused' = [reused EXCEPT ![t] = ScratchOf(t) # FreshScratch]
    /\ concurrent' = [concurrent EXCEPT ![t] = FALSE]
    /\ UNCHANGED <<field, scratch>>

InitReuse ==
    \E c \in SmallFieldConfigs : \E call \in PlainCalls(c, ReuseLen) :
        InitWith(c, [t \in Threads |-> call], {1})

NextReuse ==
    \/ \E t \in Threads : Step(t)
    \/ \E t \in Threads : Call(t)

SpecReuse == InitReuse /\ [][NextReuse]_vars

(***************************************************************************)
(* SpecConc: two threads decode at the same time against the same field.   *)
(***************************************************************************)
\* the calls of the two-thread specification: those that compute syndromes
ConcCalls(c) == { call \in PlainCalls(c, ConcLen) : call.twoS > 0 }

InitConc ==
    \E c \in SmallFieldConfigs : \E call \in [Threads -> ConcCalls(c)] :
        InitWith(c, call, Threads)

NextConc == \E t \in Threads : Step(t)

SpecConc == InitConc /\ [][NextConc]_vars

(***************************************************************************)
(* The claims.                                                             *)
(***************************************************************************)
Done(t) == pc[t] = "done"

\* every syndrome of the buffer passed to t's call is zero
Clean(t) == IsCodeword(field, orig[t], twoS[t])

\* t's call ended as decode run alone on the same buffer ends
AsAlone(t) ==
    LET alone == decode(F, orig[t], twoS[t])
    IN  status[t] = alone.status /\ received[t] = alone.received

Statuses ==
    {"NoError", "ReedSolomonAlgoFailed", "ReedSolomonSigmaTildeZero",
     "ReedSolomonDegreeMismatch", "ReedSolomonBadLocation"}

\* C1 as stated: a codeword of any length corrupted at up to twoS/2
\* positions decodes with success to the codeword
C1_RoundTripAnyLength ==
    \A t \in Threads :
        Done(t) /\ sent[t] # <<>> =>
            status[t] = "NoError" /\ received[t] = sent[t]

\* C1 amended: a codeword of at most size-1 symbols corrupted at up to
\* twoS/2 positions decodes with success to the codeword
C1_RoundTrip ==
    \A t \in Threads :
        Done(t) /\ sent[t] # <<>> /\ Len(orig[t]) <= F.size - 1 =>
            status[t] = "NoError" /\ received[t] = sent[t]

C1_Witness ==
    /\ Done(1)
    /\ sent[1] # <<>>
    /\ Len(orig[1]) <= F.size - 1
    /\ Cardinality(Diff(orig[1], sent[1])) = 2
    /\ status[1] = "NoError"
    /\ received[1] = sent[1]

\* C2: when decode returns a status other than success the buffer holds
\* what it held before the call
C2_UntouchedOnFailure ==
    \A t \in Threads :
        Done(t) /\ status[t] # "NoError" => received[t] = orig[t]

\* C3: a call on a buffer whose syndromes are all zero returns success
\* straight after the syndromes, runs neither the Euclidean algorithm nor
\* the Chien search nor Forney's formula, and leaves the buffer as it was
C3_CleanIsNoOp ==
    \A t \in Threads :
        pc[t] # "idle" /\ Clean(t) =>
            /\ pc[t] \in {"decode", "done"}
            /\ phases[t] = {}
            /\ received[t] = orig[t]
            /\ Done(t) => status[t] = "NoError"

C3_Witness ==
    /\ Done(1)
    /\ Clean(1)
    /\ twoS[1] = 2
    /\ \E i \in 1..Len(orig[1]) : orig[1][i] # 0

\* C4: no iteration of the Euclidean loop raises the division fault, and a
\* call that ends ends with one of the status values
C4_NoDivisionFault ==
    \A t \in Threads :
        /\ pc[t] # "fault"
        /\ Done(t) => status[t] \in Statuses

C4_Witness ==
    /\ Done(1)
    /\ sent[1] = <<>>
    /\ \A i \in 1..Len(orig[1]) : orig[1][i] # 0
    /\ twoS[1] = 4
    /\ "chien" \in phases[1]
    /\ Degree(sigma[1]) = 2
    /\ status[1] = "ReedSolomonDegreeMismatch"

\* C5: under every interleaving of two concurrent calls, the scratch
\* polynomials of a call that has not reached the Euclidean algorithm are
\* untouched by the other call, and each call returns the status and leaves
\* the buffer it returns and leaves when run alone
C5_NoInterference ==
    \A t \in Threads :
        /\ pc[t] \in {"decode", "euclid"} => ScratchOf(t) = FreshScratch
        /\ Done(t) => AsAlone(t)

C5_Witness ==
    /\ Done(1) /\ Done(2)
    /\ concurrent[1] /\ concurrent[2]
    /\ orig[1] # orig[2]
    /\ written[1] # <<>>
    /\ status[2] = "ReedSolomonSigmaTildeZero"

\* the steps t's call can still take, at most
Measure(t) ==
    CASE pc[t] = "decode"     -> 2 * twoS[t] + 6
      [] pc[t] = "euclid"     -> 2 * twoS[t] + 5
      [] pc[t] = "loop"       -> twoS[t] + 4 + Degree(r[t])
      [] pc[t] = "locations"  -> twoS[t] + 3
      [] pc[t] = "magnitudes" -> twoS[t] + 2
      [] pc[t] = "correct"    -> 1 + Len(errorLocations[t]) - Len(written[t])
      [] OTHER                -> 0

\* C6: every call of decode ends.  Every step of a call lowers a natural
\* number (in the Euclidean loop, the degree of r), a call that has not
\* ended is never left without a step to take, and the Chien search
\* evaluates the locator at most size-1 times
C6_Terminates ==
    /\ [][\E t \in Threads :
            /\ Measure(t)' < Measure(t)
            /\ pc[t] = "loop" /\ pc'[t] = "loop" => Degree(r'[t]) < Degree(r[t])
            /\ \A u \in Threads \ {t} : Measure(u)' = Measure(u)]_vars
    /\ [](\A t \in Threads :
            /\ Measure(t) >= 0
            /\ pc[t] \in {"idle", "decode", "euclid", "loop", "locations",
                          "magnitudes", "correct", "done"}
            /\ pc[t] = "correct" => Len(written[t]) <= Len(errorLocations[t])
            /\ "chien" \in phases[t] =>
                   FindErrorLocations(F, sigma[Slot(t)]).evaluations <= F.size - 1)

C6_Witness ==
    /\ Done(1)
    /\ twoS[1] = 4
    /\ "chien" \in phases[1]
    /\ Len(written[1]) = 2
    /\ status[1] = "NoError"

\* C7: when decode returns success and the buffer is as it was, every
\* syndrome of the buffer is zero
C7_SuccessMeansClean ==
    \A t \in Threads :
        Done(t) /\ status[t] = "NoError" /\ received[t] = orig[t] => Clean(t)

\* C8: when the normalised locator has degree 1, FindErrorLocations succeeds
\* and the one location it returns is sigma.coefficient(1), the value the
\* shortcut wrote
C8_ChienShortcut ==
    \A t \in Threads :
        /\ "chien" \in phases[t]
        /\ Degree(sigma[Slot(t)]) = 1
        /\ Coefficient(sigma[Slot(t)], 0) = 1
        => /\ status[t] # "ReedSolomonDegreeMismatch"
           /\ errorLocations[t] = <<Coefficient(sigma[Slot(t)], 1)>>

C8_Witness ==
    /\ pc[1] = "magnitudes"
    /\ Degree(sigma[1]) = 1
    /\ Coefficient(sigma[1], 0) = 1
    /\ Len(errorLocations[1]) = 1

\* C9: when RunEuclideanAlgorithm returns NoError the locator has degree at
\* most twoS/2, and a call XORs at most twoS/2 positions, each a different
\* index of the buffer
C9_CapacityBound ==
    \A t \in Threads :
        /\ pc[t] \in {"locations", "magnitudes", "correct"}
               => Degree(sigma[Slot(t)]) <= twoS[t] \div 2
        /\ Len(written[t]) <= twoS[t] \div 2
        /\ \A i \in 1..Len(written[t]) :
               /\ written[t][i] \in 0..(Len(received[t]) - 1)
               /\ \A j \in 1..Len(written[t]) :
                      i # j => written[t][i] # written[t][j]

C9_Witness ==
    /\ Done(1)
    /\ twoS[1] = 4
    /\ Degree(sigma[1]) = 2
    /\ Len(written[1]) = 2
    /\ written[1][1] # written[1][2]

\* C10: a call made after earlier calls on the same thread returns the
\* status and leaves the buffer of the same call made on fresh scratch
C10_ReuseUnobservable == \A t \in Threads : Done(t) => AsAlone(t)

C10_Witness ==
    /\ Done(1)
    /\ reused[1]
    /\ written[1] # <<>>

====
